---------------------------- MODULE Spec2Model ----------------------------
(***************************************************************************)
(* A model of cm-vision-hybrid's memory store (src/core/memory.py), its    *)
(* similarity scorer and recall query, of the vision analyzer's response   *)
(* parser and fallbacks (src/core/analyzer.py), of the pipelines that      *)
(* drive them (run_single_capture and run_cli_mode in src/main.py,         *)
(* src/ui/mvp_gui.py), and of the two event streams                        *)
(* (src/core/event_stream.py, src/capture/event_stream.py).                *)
(*                                                                         *)
(* Conventions                                                             *)
(*  - A Python dict is a function on the keys it holds; dict.get(k,        *)
(*    default) is Get(d, k, default). Where dicts are enumerated, Absent    *)
(*    stands for "no such key".                                            *)
(*  - A JSON value of a type the code does not expect is a descriptor      *)
(*    [py_type |-> ...] naming the type; a call on it raises as Python     *)
(*    does for that type.                                                  *)
(*  - A text (str) is a sequence of one-character strings over Chars, so   *)
(*    that str.lower() and difflib's block matching act on characters.     *)
(*  - A score is the exact rational value of the float expression the      *)
(*    code evaluates, kept as a record [n, d] (n/d, d > 0) and compared by *)
(*    cross-multiplication. Rounding of the float sums is not modelled.    *)
(*  - An experience keeps the keys the scorer and the ids depend on: id,    *)
(*    analysis, app, activity, suggestion. Its timestamp, screenshot,       *)
(*    error_detected and mode are written and never read by the store.      *)
(*  - find_similar returns references to the stored dicts; a reference is   *)
(*    the experience's place in the store.                                  *)
(*  - An analysis keeps app, activity, suggestion, confidence and mode; a   *)
(*    confidence is [py_type |-> "float", tenths |-> n] for n/10, or        *)
(*    [py_type |-> "str"] for a text such as "high".                        *)
(***************************************************************************)
EXTENDS Integers, Sequences, FiniteSets, TLC

VARIABLES
    memory_data,   \* MVPMemory.memory_data: the dict holding "experiences"
    memory_file,   \* what the file at MVPMemory.memory_file holds
    ret,           \* what the last call on the store returned
    a1, a2,        \* the two analyses handed to _calculate_similarity
    sim12, sim21,  \* _calculate_similarity(a1, a2) and (a2, a1), once computed
    pc,            \* where the scenario that is running stands
    is_running,    \* MVP_GUI.is_running
    threads,       \* the threads the GUI has started, in order of creation
    analyzer,      \* CMVisionHybrid.analyzer: which analyzer the system holds
    events,        \* EventStream.events, of the stream the scenario is about
    mvp_state,     \* BlueprintTracker.mvp_state
    cycle,         \* the pipeline or loop that runs: where it stands, its locals
    last_window    \* capture EventStream.last_window

storeVars == <<memory_data, memory_file, ret>>
scorerVars == <<a1, a2, sim12, sim21>>
guiVars == <<is_running, threads>>
pipelineVars == <<analyzer, events, mvp_state, cycle, last_window>>
vars == <<memory_data, memory_file, ret, a1, a2, sim12, sim21, pc, is_running, threads,
          analyzer, events, mvp_state, cycle, last_window>>

-----------------------------------------------------------------------------
(* Bounds of the model *)

MaxTextLen == 2     \* longest suggestion text of the scorer scenario
MaxStore == 3       \* most experiences the store scenario appends to
MaxLimit == 2       \* largest limit handed to find_similar
MaxThreads == 3     \* most threads the GUI scenario starts
MaxCycles == 2      \* most experiences the pipeline scenario appends
MaxCaptures == 3    \* most experiences the CLI loop appends
MaxBeyond == 2      \* most experiences a long store holds beyond the window
MaxAdds == 3        \* most events added to an event stream

-----------------------------------------------------------------------------
(* Values *)

Absent == "<absent>"          \* stands for "no such key" where dicts are enumerated
NoWindow == "<None>"         \* last_window before a window was seen (None)

Chars == {"a", "b", "A"}

\* str.lower() on one character and on a text
LowerChar(c) == IF c = "A" THEN "a" ELSE c
Lower(s) == [i \in 1..Len(s) |-> LowerChar(s[i])]

Texts(n) == UNION {[1..k -> Chars] : k \in 0..n}

\* A value found where a text is expected: None, and a number. Each is
\* written as a one-element sequence that is no text over Chars.
PyNone == <<"<None>">>
PyInt == <<"<int>">>
IsStr(s) == s \notin {PyNone, PyInt}
\* bool(s): None and the empty text are false
Truthy(s) == s \notin {<<>>, PyNone}

\* A dict is a function from the keys it holds; dict.get(key, default)
Get(d, k, default) == IF k \in DOMAIN d THEN d[k] ELSE default

\* The dict {key: value}, or {} when the value stands for a missing key
Entry(key, value, missing) == IF value = missing THEN <<>> ELSE [x \in {key} |-> value]

\* An analysis dict with the keys "app", "activity" and "suggestion", each
\* left out when its argument is Absent (<<Absent>> for the text)
MkAnalysis(app, activity, suggestion) ==
    Entry("app", app, Absent) @@ Entry("activity", activity, Absent)
        @@ Entry("suggestion", suggestion, <<Absent>>)

Min(x, y) == IF x <= y THEN x ELSE y
Max(x, y) == IF x >= y THEN x ELSE y

-----------------------------------------------------------------------------
(* difflib.SequenceMatcher(None, s1, s2).ratio(), as called at             *)
(* memory.py:133-134. No junk: isjunk is None and the popularity heuristic *)
(* needs 200 characters. Indices are Python's: block (i, j, k) is          *)
(* s1[i:i+k] == s2[j:j+k].                                                 *)

\* The blocks of s1[alo:ahi] that also occur in s2[blo:bhi].
MatchingBlocksIn(s1, s2, alo, ahi, blo, bhi) ==
    {blk \in [i : alo..(ahi - 1), j : blo..(bhi - 1), k : 1..Min(ahi - alo, bhi - blo)] :
        /\ blk.i + blk.k <= ahi
        /\ blk.j + blk.k <= bhi
        /\ \A t \in 1..blk.k : s1[blk.i + t] = s2[blk.j + t]}

\* find_longest_match: the longest block; of those the one starting earliest
\* in s1; of those the one starting earliest in s2. k = 0 when nothing matches.
find_longest_match(s1, s2, alo, ahi, blo, bhi) ==
    LET blocks == MatchingBlocksIn(s1, s2, alo, ahi, blo, bhi)
    IN  IF blocks = {} THEN [i |-> alo, j |-> blo, k |-> 0]
        ELSE CHOOSE m \in blocks : \A o \in blocks :
                \/ m.k > o.k
                \/ m.k = o.k /\ m.i < o.i
                \/ m.k = o.k /\ m.i = o.i /\ m.j <= o.j

\* get_matching_blocks, summed: the longest block, then the same to its left
\* and to its right.
RECURSIVE MatchedChars(_, _, _, _, _, _)
MatchedChars(s1, s2, alo, ahi, blo, bhi) ==
    LET m == find_longest_match(s1, s2, alo, ahi, blo, bhi)
    IN  IF m.k = 0 THEN 0
        ELSE m.k
             + (IF alo < m.i /\ blo < m.j
                THEN MatchedChars(s1, s2, alo, m.i, blo, m.j) ELSE 0)
             + (IF m.i + m.k < ahi /\ m.j + m.k < bhi
                THEN MatchedChars(s1, s2, m.i + m.k, ahi, m.j + m.k, bhi) ELSE 0)

\* ratio() without the factor 2.0
ratio_Halved(s1, s2) ==
    [n |-> MatchedChars(s1, s2, 0, Len(s1), 0, Len(s2)),
     d |-> Len(s1) + Len(s2)]

\* ratio() = 2.0 * matches / (len(s1) + len(s2)), as the rational n/d
ratio(s1, s2) ==
    [n |-> 2 * MatchedChars(s1, s2, 0, Len(s1), 0, Len(s2)),
     d |-> Len(s1) + Len(s2)]

-----------------------------------------------------------------------------
(* Scores: rationals n/d with d > 0 *)

RatGt(x, y) == x.n * y.d > y.n * x.d
RatEq(x, y) == x.n * y.d = y.n * x.d
RatGe(x, y) == x.n * y.d >= y.n * x.d

\* w/10 as a rational
Tenths(w) == [n |-> w, d |-> 10]
RatAdd(x, y) == [n |-> x.n * y.d + y.n * x.d, d |-> x.d * y.d]
RatMul(x, y) == [n |-> x.n * y.n, d |-> x.d * y.d]

-----------------------------------------------------------------------------
(* MVPMemory._calculate_similarity (memory.py:111-138) *)

UNKNOWN == "unknown"

\* str.lower() on the app labels the model draws
LowerLabel(l) == IF l = "Editor" THEN "editor" ELSE l

\* The app comparison with both labels lower-cased first
AppSignal_IgnoreCase(analysis1, analysis2) ==
    LET app1 == LowerLabel(Get(analysis1, "app", UNKNOWN))
        app2 == LowerLabel(Get(analysis2, "app", UNKNOWN))
    IN  IF app1 = app2 /\ app1 # UNKNOWN THEN Tenths(4) ELSE Tenths(0)

\* memory.py:116-119: the app labels are compared with ==
AppSignal(analysis1, analysis2) ==
    LET app1 == Get(analysis1, "app", UNKNOWN)
        app2 == Get(analysis2, "app", UNKNOWN)
    IN  IF app1 = app2 /\ app1 # UNKNOWN THEN Tenths(4) ELSE Tenths(0)

\* memory.py:122-125
ActivitySignal(analysis1, analysis2) ==
    LET activity1 == Get(analysis1, "activity", UNKNOWN)
        activity2 == Get(analysis2, "activity", UNKNOWN)
    IN  IF activity1 = activity2 /\ activity1 # UNKNOWN THEN Tenths(3) ELSE Tenths(0)

\* The text signal weighted 0.4 instead of 0.3
TextSignal_Weight4(analysis1, analysis2) ==
    LET suggestion1 == Get(analysis1, "suggestion", <<>>)
        suggestion2 == Get(analysis2, "suggestion", <<>>)
    IN  IF suggestion1 # <<>> /\ suggestion2 # <<>>
        THEN RatMul(ratio(Lower(suggestion1), Lower(suggestion2)), Tenths(4))
        ELSE Tenths(0)

\* memory.py:128-136: skipped unless both suggestions are true; .lower()
\* raising on one that is no str is caught and adds nothing
TextSignal(analysis1, analysis2) ==
    LET suggestion1 == Get(analysis1, "suggestion", <<>>)
        suggestion2 == Get(analysis2, "suggestion", <<>>)
    IN  IF Truthy(suggestion1) /\ Truthy(suggestion2)
        THEN IF IsStr(suggestion1) /\ IsStr(suggestion2)
             THEN RatMul(ratio(Lower(suggestion1), Lower(suggestion2)), Tenths(3))
             ELSE Tenths(0)
        ELSE Tenths(0)

calculate_similarity(analysis1, analysis2) ==
    RatAdd(RatAdd(AppSignal(analysis1, analysis2),
                  ActivitySignal(analysis1, analysis2)),
           TextSignal(analysis1, analysis2))

-----------------------------------------------------------------------------
(* MVPMemory: the store (memory.py:14-109, 140-146) *)

Window == 50          \* memory.py:87, experiences[-50:]
DefaultLimit == 5     \* memory.py:79, limit: int = 5
Threshold == Tenths(3)   \* memory.py:102, similarity_score > 0.3

Experiences(data) == Get(data, "experiences", <<>>)

\* dict[key] = value
Put(d, key, value) == [x \in DOMAIN d \cup {key} |-> IF x = key THEN value ELSE d[x]]

\* A parsed document that is not a dict holding a list of dicts is written
\* by the types it is made of: [py_type |-> "list"] is the empty JSON array,
\* [py_type |-> "int"] a number, and [py_type |-> "dict", experiences_type
\* |-> t] an object whose "experiences" member is a number ("int"), the
\* empty object ("dict") or an array of numbers ("list_of_int").
NotDict(type) == [py_type |-> type]
ExperiencesOf(type) == [py_type |-> "dict", experiences_type |-> type]
IllTyped(data) == "py_type" \in DOMAIN data

\* self.memory_data of an object whose __init__ raised
Unbound == NotDict("unbound")

\* memory.py:44-50: the structure a store starts from when nothing is loaded
NewMemory(now) ==
    [version |-> "0.1.1", created |-> now, last_updated |-> now,
     experiences |-> <<>>, patterns |-> <<>>]

\* Defaults of another version: a missing app reads as "editor"
AnalysisFromFields_EditorDefault(exp) ==
    [app |-> Get(exp, "app", "editor"),
     activity |-> Get(exp, "activity", UNKNOWN),
     suggestion |-> Get(exp, "suggestion", <<>>)]

\* memory.py:31-38 and 92-98: an analysis made of the experience's own fields
AnalysisFromFields(exp) ==
    [app |-> Get(exp, "app", UNKNOWN),
     activity |-> Get(exp, "activity", UNKNOWN),
     suggestion |-> Get(exp, "suggestion", <<>>)]

\* _load_memory rebuilding every "analysis" from the experience's fields and
\* keeping only the members it knows
load_memory_Rebuilding(file, now) ==
    IF file.kind # "doc" THEN NewMemory(now)
    ELSE IF IllTyped(file.data) \/ "experiences" \notin DOMAIN file.data THEN file.data
    ELSE [version |-> file.data.version, last_updated |-> file.data.last_updated,
          experiences |->
             [i \in 1..Len(file.data.experiences) |->
                 LET exp == file.data.experiences[i]
                 IN  Put(exp, "analysis",
                         [app |-> Get(exp, "app", UNKNOWN),
                          activity |-> Get(exp, "activity", UNKNOWN),
                          suggestion |-> Get(exp, "suggestion", <<>>)])]]

\* memory.py:24-40: the exception _load_memory lets through, "none" if it
\* returns. Only json.JSONDecodeError is caught. `"experiences" in data`
\* raises on a number; the loop raises on an "experiences" that is a
\* number, and `"analysis" not in exp` on an element that is one.
load_raises(file) ==
    IF file.kind # "doc" \/ ~IllTyped(file.data) THEN "none"
    ELSE IF file.data.py_type = "int" THEN "TypeError"
    ELSE IF file.data.py_type = "dict" /\ file.data.experiences_type \in {"int", "list_of_int"}
         THEN "TypeError"
    ELSE "none"

\* memory.py:22-50, _load_memory when it returns: a missing file and one
\* json cannot parse give a new structure; a parsed document is returned as
\* it is, with an "analysis" added to each experience that has none.
load_memory(file, now) ==
    IF file.kind # "doc" THEN NewMemory(now)
    ELSE IF IllTyped(file.data) \/ "experiences" \notin DOMAIN file.data THEN file.data
    ELSE Put(file.data, "experiences",
             [i \in 1..Len(file.data.experiences) |->
                 LET exp == file.data.experiences[i]
                 IN  IF "analysis" \in DOMAIN exp THEN exp
                     ELSE Put(exp, "analysis", AnalysisFromFields(exp))])

\* memory.py:140-146, _save_memory: open(..., 'w') then json.dump of the
\* whole of memory_data. Failing to open leaves the file as it was, failing
\* inside dump leaves a truncated document; either way the exception is
\* swallowed. The values the store holds (str, int, dict with str keys,
\* list) are written and parsed back as themselves.
save_memory(data, file, outcome) ==
    CASE outcome = "ok" -> [kind |-> "doc", data |-> data]
      [] outcome = "open_fails" -> file
      [] outcome = "dump_fails" -> [kind |-> "corrupt"]

\* memory.py:56: the id is the number of stored experiences plus one
NextId(data) == Len(Experiences(data)) + 1

\* memory.py:55-65: the experience built from an analysis
NewExperience(id, analysis) ==
    [id |-> id,
     analysis |-> analysis,
     app |-> Get(analysis, "app", UNKNOWN),
     activity |-> Get(analysis, "activity", UNKNOWN),
     suggestion |-> Get(analysis, "suggestion", <<>>)]

\* memory.py:67-72: append (to a new list when the document has none) and
\* stamp; nothing is ever removed
Appended(data, exp, now) ==
    Put(Put(data, "experiences", Append(Experiences(data), exp)), "last_updated", now)

\* memory.py:56 and 71: memory_data.get raises when the document is a list,
\* and .append when its "experiences" is a dict
save_raises(data) ==
    IF IllTyped(data) THEN "AttributeError" ELSE "none"

\* memory.py:81-83 and 150: memory_data.get raises when the document is a
\* list; an empty "experiences" of any type is answered from
query_raises(data) ==
    IF IllTyped(data) /\ data.py_type # "dict" THEN "AttributeError" ELSE "none"

\* What a call that raised leaves as its outcome
Raised(call, error) == [op |-> "raise", call |-> call, error |-> error]

\* memory.py:89-98: the analysis an experience is scored by
ExpAnalysis(exp) ==
    LET exp_analysis == Get(exp, "analysis", <<>>)
    IN  IF DOMAIN exp_analysis = {} THEN AnalysisFromFields(exp) ELSE exp_analysis

\* list.sort(key=score, reverse=True) is stable: an element goes behind the
\* elements that score as much as it does. `sorted` is in descending order.
InsertDesc_BeforeEqual(sorted, x) ==
    LET ahead == Cardinality({j \in 1..Len(sorted) : RatGt(sorted[j].score, x.score)})
    IN  SubSeq(sorted, 1, ahead) \o <<x>> \o SubSeq(sorted, ahead + 1, Len(sorted))

InsertDesc(sorted, x) ==
    LET ahead == Cardinality({j \in 1..Len(sorted) : RatGe(sorted[j].score, x.score)})
    IN  SubSeq(sorted, 1, ahead) \o <<x>> \o SubSeq(sorted, ahead + 1, Len(sorted))

\* The elements of seq put into `sorted` one after the other, first to
\* last, each into the list as the elements before it have left it
RECURSIVE InsertAll(_, _)
InsertAll(sorted, seq) ==
    IF seq = <<>> THEN sorted
    ELSE LET next == InsertDesc(sorted, seq[1])
         IN  IF Len(next) > 0 THEN InsertAll(next, Tail(seq)) ELSE <<>>

SortDesc(seq) == InsertAll(<<>>, seq)

\* Python's seq[:limit]
SliceTo(seq, limit) ==
    SubSeq(seq, 1, IF limit >= 0 THEN Min(limit, Len(seq))
                   ELSE Max(Len(seq) + limit, 0))

\* The experiences of the window that score 0.3 or more
Similarities_AtThreshold(data, current_analysis) ==
    LET experiences == Experiences(data)
        first == Max(1, Len(experiences) - Window + 1)
        scored == [i \in 1..(Len(experiences) - first + 1) |->
                     [score |-> calculate_similarity(current_analysis,
                                    ExpAnalysis(experiences[first + i - 1])),
                      at |-> first + i - 1]]
    IN  SelectSeq(scored, LAMBDA x : RatGe(x.score, Threshold))

\* The experiences of the whole store that clear the threshold
Similarities_WholeStore(data, current_analysis) ==
    LET experiences == Experiences(data)
        scored == [i \in 1..Len(experiences) |->
                     [score |-> calculate_similarity(current_analysis,
                                    ExpAnalysis(experiences[i])),
                      at |-> i]]
    IN  SelectSeq(scored, LAMBDA x : RatGt(x.score, Threshold))

\* memory.py:87-103: the experiences of the window that clear the threshold,
\* in store order, each with its score. An experience is referred to by its
\* place in the store.
Similarities(data, current_analysis) ==
    LET experiences == Experiences(data)
        first == Max(1, Len(experiences) - Window + 1)
        scored == [i \in 1..(Len(experiences) - first + 1) |->
                     [score |-> calculate_similarity(current_analysis,
                                    ExpAnalysis(experiences[first + i - 1])),
                      at |-> first + i - 1]]
    IN  SelectSeq(scored, LAMBDA x : RatGt(x.score, Threshold))

\* memory.py:79-109, find_similar: the places of the experiences returned
find_similar(data, current_analysis, limit) ==
    IF Experiences(data) = <<>> THEN <<>>
    ELSE LET top == SliceTo(SortDesc(Similarities(data, current_analysis)), limit)
         IN  [i \in 1..Len(top) |-> top[i].at]

-----------------------------------------------------------------------------
(* The store in use: a process starts on some memory file, then appends,   *)
(* queries, runs pipeline cycles and restarts.                              *)

EditorCoding == MkAnalysis("editor", "coding", <<"a", "b">>)

StoreAnalyses ==
    {EditorCoding,
     MkAnalysis("browser", "browsing", <<"b">>),
     MkAnalysis(UNKNOWN, UNKNOWN, <<"a", "b">>),
     MkAnalysis("editor", Absent, <<Absent>>)}

\* An experience written before "analysis" was stored with it
LegacyExperience ==
    [id |-> 1, app |-> "editor", activity |-> "coding", suggestion |-> <<"a", "b">>]

\* A document of an older version
LegacyDocument ==
    [version |-> "0.1.0", last_updated |-> 0, experiences |-> <<LegacyExperience>>]

\* A document whose earlier entries were removed
TrimmedDocument ==
    [version |-> "0.1.1", last_updated |-> 0,
     experiences |-> <<NewExperience(3, EditorCoding)>>]

\* A document of a later version: a member and an experience field this
\* version does not know, and an experience with none of the optional fields
FutureDocument ==
    [version |-> "0.2.0", last_updated |-> 0, future |-> "x",
     experiences |-> <<[id |-> 1],
                       Put(NewExperience(2, EditorCoding), "future", "x")>>]

\* What the memory file may hold when the process starts: nothing, text json
\* cannot parse, a document, or JSON of another shape
InitialFiles ==
    {[kind |-> "missing"], [kind |-> "corrupt"]}
    \cup {[kind |-> "doc", data |-> data] :
            data \in {LegacyDocument, TrimmedDocument, FutureDocument,
                      [version |-> "0.1.1"],
                      NotDict("list"), NotDict("int"),
                      ExperiencesOf("int"), ExperiencesOf("dict"),
                      ExperiencesOf("list_of_int")}}

WriteOutcomes == {"ok", "open_fails", "dump_fails"}
Limits == (0 - 1)..MaxLimit

\* What datetime.now() is seen to return while the process runs; the
\* documents above were written earlier, at time 0
Times == {1}

ScorerIdle ==
    /\ a1 = <<>>
    /\ a2 = <<>>
    /\ sim12 = Tenths(0)
    /\ sim21 = Tenths(0)

GuiIdle ==
    /\ is_running = FALSE
    /\ threads = <<>>

PipelineIdle ==
    /\ analyzer = "none"
    /\ last_window = NoWindow
    /\ events = <<>>
    /\ mvp_state = [total_captures |-> 0, memory_items |-> 0]
    /\ cycle = [at |-> "idle"]

\* memory.py:17-20, __init__: the object it leaves, or the exception
Constructed(file, now) ==
    IF load_raises(file) = "none"
    THEN [memory_data |-> load_memory(file, now), ret |-> [op |-> "load"], pc |-> "store"]
    ELSE [memory_data |-> Unbound, ret |-> Raised("load", load_raises(file)),
          pc |-> "crashed"]

Init ==
    /\ memory_file \in InitialFiles
    /\ \E now \in Times :
          /\ memory_data = Constructed(memory_file, now).memory_data
          /\ ret = Constructed(memory_file, now).ret
          /\ pc = Constructed(memory_file, now).pc
    /\ ScorerIdle
    /\ GuiIdle
    /\ PipelineIdle

\* save_experience with the exception of a failed write let through: the
\* append is undone and no id is returned
SaveExperience_WriteRaises(analysis, now, outcome, cap) ==
    /\ pc = "store"
    /\ Len(Experiences(memory_data)) < cap
    /\ IF save_raises(memory_data) # "none" \/ outcome # "ok"
       THEN /\ ret' = Raised("save", IF outcome # "ok" THEN "OSError"
                                     ELSE save_raises(memory_data))
            /\ UNCHANGED <<memory_data, memory_file>>
       ELSE LET experience == NewExperience(NextId(memory_data), analysis)
            IN  /\ memory_data' = Appended(memory_data, experience, now)
                /\ memory_file' = save_memory(memory_data', memory_file, outcome)
                /\ ret' = [op |-> "save", id |-> experience.id]
    /\ UNCHANGED <<scorerVars, guiVars, pc, pipelineVars>>

\* memory.py:52-77, save_experience, up to `cap` experiences
SaveExperience(analysis, now, outcome, cap) ==
    /\ pc = "store"
    /\ Len(Experiences(memory_data)) < cap
    /\ IF save_raises(memory_data) # "none"
       THEN /\ ret' = Raised("save", save_raises(memory_data))
            /\ UNCHANGED <<memory_data, memory_file>>
       ELSE LET experience == NewExperience(NextId(memory_data), analysis)
            IN  /\ memory_data' = Appended(memory_data, experience, now)
                /\ memory_file' = save_memory(memory_data', memory_file, outcome)
                /\ ret' = [op |-> "save", id |-> experience.id]
    /\ UNCHANGED <<scorerVars, guiVars, pc, pipelineVars>>

\* find_similar made to stamp the document it reads
FindSimilar_Stamping(current_analysis, limit) ==
    /\ pc = "store"
    /\ ret' = IF query_raises(memory_data) # "none"
              THEN Raised("find", query_raises(memory_data))
              ELSE [op |-> "find", query |-> current_analysis, limit |-> limit,
                    similar |-> find_similar(memory_data, current_analysis, limit)]
    /\ memory_data' = Put(memory_data, "last_updated", 1)
    /\ UNCHANGED <<memory_file, scorerVars, guiVars, pc, pipelineVars>>

\* memory.py:79-109, find_similar
FindSimilar(current_analysis, limit) ==
    /\ pc = "store"
    /\ ret' = IF query_raises(memory_data) # "none"
              THEN Raised("find", query_raises(memory_data))
              ELSE [op |-> "find", query |-> current_analysis, limit |-> limit,
                    similar |-> find_similar(memory_data, current_analysis, limit)]
    /\ UNCHANGED <<memory_data, memory_file, scorerVars, guiVars, pc, pipelineVars>>

\* memory.py:148-162, get_statistics
GetStatistics ==
    /\ pc = "store"
    /\ ret' = IF query_raises(memory_data) # "none"
              THEN Raised("stats", query_raises(memory_data))
              ELSE [op |-> "stats",
                    total_experiences |-> Len(Experiences(memory_data)),
                    last_updated |-> Get(memory_data, "last_updated", 0 - 1)]
    /\ UNCHANGED <<memory_data, memory_file, scorerVars, guiVars, pc, pipelineVars>>

\* main.py:232-233: the suggestion shown is that of the first match, if it
\* has one
SuggestionShown(data, similar) ==
    IF similar # <<>> /\ Get(Experiences(data)[similar[1]], "suggestion", <<>>) # <<>>
    THEN <<similar[1]>> ELSE <<>>

\* main.py:202-233 (and 393-421, 140-172): one pipeline cycle whose capture
\* succeeded: the analysis is saved, then similar experiences are looked up
\* with that same analysis and the default limit.
PipelineCycle(analysis, now, outcome) ==
    /\ pc = "store"
    /\ Len(Experiences(memory_data)) < MaxStore
    /\ IF save_raises(memory_data) # "none"
       THEN /\ ret' = Raised("cycle", save_raises(memory_data))
            /\ UNCHANGED <<memory_data, memory_file>>
       ELSE LET experience == NewExperience(NextId(memory_data), analysis)
                data == Appended(memory_data, experience, now)
                similar == find_similar(data, analysis, DefaultLimit)
            IN  /\ memory_data' = data
                /\ memory_file' = save_memory(data, memory_file, outcome)
                /\ ret' = [op |-> "cycle", id |-> experience.id, query |-> analysis,
                           limit |-> DefaultLimit, similar |-> similar,
                           shown |-> SuggestionShown(data, similar)]
    /\ UNCHANGED <<scorerVars, guiVars, pc, pipelineVars>>

\* A new process: MVPMemory.__init__ on the file as it is now
Restart(now) ==
    /\ pc \in {"store", "crashed"}
    /\ memory_data' = Constructed(memory_file, now).memory_data
    /\ ret' = Constructed(memory_file, now).ret
    /\ pc' = Constructed(memory_file, now).pc
    /\ UNCHANGED <<memory_file, scorerVars, guiVars, pipelineVars>>

Next ==
    \/ \E analysis \in StoreAnalyses, now \in Times, outcome \in WriteOutcomes :
          SaveExperience(analysis, now, outcome, MaxStore)
    \/ \E analysis \in StoreAnalyses, limit \in Limits : FindSimilar(analysis, limit)
    \/ GetStatistics
    \/ \E analysis \in StoreAnalyses, now \in Times, outcome \in WriteOutcomes :
          PipelineCycle(analysis, now, outcome)
    \/ \E now \in Times : Restart(now)

Spec == Init /\ [][Next]_vars

-----------------------------------------------------------------------------
(* The store left to grow: appends only, every write succeeding *)

N_max == 1000       \* the cap the store is said to keep

InitGrow ==
    /\ memory_file = [kind |-> "missing"]
    /\ memory_data = load_memory(memory_file, 0)
    /\ ret = [op |-> "load"]
    /\ pc = "store"
    /\ ScorerIdle
    /\ GuiIdle
    /\ PipelineIdle

NextGrow == SaveExperience(EditorCoding, 1, "ok", N_max + 1)

SpecGrow == InitGrow /\ [][NextGrow]_vars

-----------------------------------------------------------------------------
(* The store grown long: a process starts on a file of about as many       *)
(* experiences as the window of find_similar is wide, and is queried.      *)

\* A document of n experiences, the first `editors` of them of the editor
\* and the later ones of the browser
LongDocument(n, editors) ==
    [version |-> "0.1.1", last_updated |-> 0,
     experiences |-> [i \in 1..n |->
                        NewExperience(i, IF i <= editors THEN EditorCoding
                                         ELSE MkAnalysis("browser", "browsing", <<"b">>))]]

InitWindow ==
    /\ memory_file \in {[kind |-> "doc", data |-> LongDocument(n, editors)] :
                            n \in (Window - 1)..(Window + MaxBeyond),
                            editors \in 0..(Window + MaxBeyond)}
    /\ memory_data = load_memory(memory_file, 1)
    /\ ret = [op |-> "load"]
    /\ pc = "store"
    /\ ScorerIdle
    /\ GuiIdle
    /\ PipelineIdle

NextWindow ==
    \E analysis \in {EditorCoding, MkAnalysis("browser", "browsing", <<"b">>)},
       limit \in Limits \cup {DefaultLimit} :
        FindSimilar(analysis, limit)

SpecWindow == InitWindow /\ [][NextWindow]_vars

-----------------------------------------------------------------------------
(* MVP_GUI (mvp_gui.py:165-233): the Start, Stop and Single Capture        *)
(* buttons, the analysis loop thread and the threads of single captures.   *)
(* A thread is [kind, at, id]: "loop" or "single", the step it stands      *)
(* before, and the id its save_experience has computed.                    *)

\* system.capture_and_analyze(), step by step: capture and analyse, then
\* save_experience (memory.py:56 reads the length, :71 appends, :75 writes
\* the file), then find_similar.
PipelineSteps == <<"capture", "save_id", "save_append", "save_flush", "find", "done">>

StepAfter(at) ==
    PipelineSteps[1 + CHOOSE i \in 1..(Len(PipelineSteps) - 1) : PipelineSteps[i] = at]

\* The thread is inside capture_and_analyze, its capture done
InFlight(thread) == thread.at \in {"save_id", "save_append", "save_flush", "find"}

Moved(t, at) == [threads EXCEPT ![t].at = at]

InitGui ==
    /\ memory_file = [kind |-> "missing"]
    /\ memory_data = load_memory(memory_file, 0)
    /\ ret = [op |-> "load"]
    /\ pc = "gui"
    /\ ScorerIdle
    /\ GuiIdle
    /\ PipelineIdle

\* mvp_gui.py:165-178
start_analysis ==
    /\ pc = "gui"
    /\ ~is_running
    /\ Len(threads) < MaxThreads
    /\ is_running' = TRUE
    /\ threads' = Append(threads, [kind |-> "loop", at |-> "while", id |-> 0])
    /\ UNCHANGED <<storeVars, scorerVars, pc, pipelineVars>>

\* mvp_gui.py:180-187
stop_analysis ==
    /\ pc = "gui"
    /\ is_running
    /\ is_running' = FALSE
    /\ UNCHANGED <<storeVars, scorerVars, pc, threads, pipelineVars>>

\* mvp_gui.py:189-196: a thread is started whatever else is running
single_capture ==
    /\ pc = "gui"
    /\ Len(threads) < MaxThreads
    /\ threads' = Append(threads, [kind |-> "single", at |-> "capture", id |-> 0])
    /\ UNCHANGED <<storeVars, scorerVars, pc, is_running, pipelineVars>>

\* mvp_gui.py:202: while self.is_running
LoopWhile(t) ==
    /\ threads[t].at = "while"
    /\ threads' = Moved(t, IF is_running THEN "capture" ELSE "exit")
    /\ UNCHANGED <<storeVars, scorerVars, pc, is_running, pipelineVars>>

\* mvp_gui.py:207-210: the wait between two captures
LoopWait(t) ==
    /\ threads[t].at = "wait"
    /\ threads' = Moved(t, "while")
    /\ UNCHANGED <<storeVars, scorerVars, pc, is_running, pipelineVars>>

\* mvp_gui.py:220: the capture and the analysis; a failed capture ends the
\* cycle with no result
Capture(t, ok) ==
    /\ threads[t].at = "capture"
    /\ Len(Experiences(memory_data))
         + Cardinality({u \in DOMAIN threads : threads[u].at \in {"save_id", "save_append"}})
       < MaxStore
    /\ threads' = Moved(t, IF ok THEN StepAfter("capture") ELSE "done")
    /\ UNCHANGED <<storeVars, scorerVars, pc, is_running, pipelineVars>>

\* memory.py:55-65: the experience is built, its id from the length now
SaveId(t) ==
    /\ threads[t].at = "save_id"
    /\ threads' = [threads EXCEPT ![t].id = NextId(memory_data),
                                  ![t].at = StepAfter("save_id")]
    /\ UNCHANGED <<storeVars, scorerVars, pc, is_running, pipelineVars>>

\* memory.py:67-72
SaveAppend(t) ==
    /\ threads[t].at = "save_append"
    /\ memory_data' = Appended(memory_data, NewExperience(threads[t].id, EditorCoding), 1)
    /\ threads' = Moved(t, StepAfter("save_append"))
    /\ UNCHANGED <<memory_file, ret, scorerVars, pc, is_running, pipelineVars>>

\* memory.py:75
SaveFlush(t, outcome) ==
    /\ threads[t].at = "save_flush"
    /\ memory_file' = save_memory(memory_data, memory_file, outcome)
    /\ threads' = Moved(t, StepAfter("save_flush"))
    /\ UNCHANGED <<memory_data, ret, scorerVars, pc, is_running, pipelineVars>>

\* memory.py:79-109: reads only
Find(t) ==
    /\ threads[t].at = "find"
    /\ threads' = Moved(t, StepAfter("find"))
    /\ UNCHANGED <<storeVars, scorerVars, pc, is_running, pipelineVars>>

\* mvp_gui.py:222-233, then 206 for the loop: _perform_capture returns
Return(t) ==
    /\ threads[t].at = "done"
    /\ threads' = Moved(t, IF threads[t].kind = "loop" THEN "wait" ELSE "exit")
    /\ UNCHANGED <<storeVars, scorerVars, pc, is_running, pipelineVars>>

NextGui ==
    \/ start_analysis
    \/ stop_analysis
    \/ single_capture
    \/ \E t \in DOMAIN threads : LoopWhile(t)
    \/ \E t \in DOMAIN threads : LoopWait(t)
    \/ \E t \in DOMAIN threads, ok \in BOOLEAN : Capture(t, ok)
    \/ \E t \in DOMAIN threads : SaveId(t)
    \/ \E t \in DOMAIN threads : SaveAppend(t)
    \/ \E t \in DOMAIN threads, outcome \in WriteOutcomes : SaveFlush(t, outcome)
    \/ \E t \in DOMAIN threads : Find(t)
    \/ \E t \in DOMAIN threads : Return(t)

SpecGui == InitGui /\ [][NextGui]_vars

-----------------------------------------------------------------------------
(* GeminiAnalyzer (analyzer.py:23-270) and the stand-in of main.py:97-114.  *)
(* The text of a response is taken by what json.loads makes of the part    *)
(* _parse_gemini_response cuts out of it (analyzer.py:116-132): a text     *)
(* json cannot parse ("text", with the text and the first app and activity *)
(* patterns it holds), or a parsed value ("json"), a dict of raw fields or *)
(* a value of another type.                                                *)

Float(tenths) == [py_type |-> "float", tenths |-> tenths]
NotAFloat == [py_type |-> "str"]

\* An app that is no str (null, a number)
NoStr == "<no str>"

\* The fixed messages, each written as a short text of its own
AnalysisCompleted == <<"a">>          \* analyzer.py:109
NoSuggestion == <<"b">>               \* analyzer.py:139, 168
ContextBased == <<"a", "a">>          \* analyzer.py:254
FastLocalMode == <<"b", "b">>         \* analyzer.py:266
UsingLocalFallback == <<"b", "a">>    \* main.py:105

Analysis(app, activity, suggestion, confidence, mode) ==
    [app |-> app, activity |-> activity, suggestion |-> suggestion,
     confidence |-> confidence, mode |-> mode]

\* analyzer.py:146: which of the words the clean-up looks for occur in
\* app.lower().replace(" ", "_"), for the names drawn and the names the
\* clean-up gives out ("vs" does not occur in "visual_studio_code")
AppParts(app) ==
    CASE app \in {"VS Code", "vscode"} -> {"vs", "code"}
      [] app = "Visual Studio Code" -> {"visual", "studio", "code"}
      [] app = "visual_studio" -> {"visual", "studio"}
      [] app = "cmd.exe" -> {"cmd"}
      [] app = "command_prompt" -> {"command"}
      [] app \in {"Windows PowerShell", "powershell"} -> {"power", "shell"}
      [] OTHER -> {}

\* analyzer.py:146-154: the app name lower-cased, blanks made underscores,
\* then replaced by the first known name whose parts it holds
CleanApp(app) ==
    LET parts == AppParts(app)
    IN  IF {"visual", "studio"} \subseteq parts THEN "visual_studio"
        ELSE IF {"vs", "code"} \subseteq parts THEN "vscode"
        ELSE IF "command" \in parts \/ "cmd" \in parts THEN "command_prompt"
        ELSE IF {"power", "shell"} \subseteq parts THEN "powershell"
        ELSE app

\* analyzer.py:130-172, _parse_gemini_response: the analysis, or the
\* exception that leaves it. Only json.JSONDecodeError is caught: .get on a
\* parsed value that is no dict raises, and so does .lower() on an app that
\* is no str.
parse_gemini_response(response) ==
    IF response.kind = "text"
    THEN [raises |-> "none",
          analysis |-> Analysis(response.app_pattern, response.activity_pattern,
                                IF response.text # <<>>
                                THEN SubSeq(response.text, 1, Min(100, Len(response.text)))
                                ELSE NoSuggestion,
                                Float(5), "gemini_text")]
    ELSE IF IllTyped(response.value) THEN [raises |-> "AttributeError"]
    ELSE LET data == response.value
         IN  IF Get(data, "app", UNKNOWN) = NoStr THEN [raises |-> "AttributeError"]
             ELSE [raises |-> "none",
                   analysis |-> Analysis(CleanApp(Get(data, "app", UNKNOWN)),
                                         Get(data, "activity", UNKNOWN),
                                         Get(data, "suggestion", NoSuggestion),
                                         Get(data, "confidence", Float(5)),
                                         "gemini_json")]

\* analyzer.py:227-258, _fallback_with_context without a context
fallback_with_context ==
    Analysis(UNKNOWN, UNKNOWN, ContextBased, Float(3), "context_fallback")

\* analyzer.py:260-270, _fast_fallback_analysis
fast_fallback_analysis ==
    Analysis(UNKNOWN, UNKNOWN, FastLocalMode, Float(1), "fast_local")

\* main.py:99-109, MinimalAnalyzer.analyze
minimal_analysis ==
    Analysis(UNKNOWN, "fallback_analysis", UsingLocalFallback, Float(3), "local_fallback")

\* analyzer.py:43-99, analyze (main.py:100 for the stand-in). `vision` is
\* what the call to the API does: it raises ([kind |-> "exception"]) or
\* gives a response. Every exception under the try, those of the parser
\* included, ends in the context fallback.
analyze(which, vision) ==
    CASE which = "minimal" -> minimal_analysis
      [] which = "unavailable" -> fast_fallback_analysis
      [] which = "available" ->
            IF vision.kind = "exception" THEN fallback_with_context
            ELSE IF parse_gemini_response(vision).raises # "none" THEN fallback_with_context
            ELSE parse_gemini_response(vision).analysis

-----------------------------------------------------------------------------
(* The parser on its own: a response is drawn, then parsed.                 *)

NoConfidence == [py_type |-> "absent"]

\* The dict of raw fields, each left out when its argument stands for a
\* missing key
RawDict(app, activity, suggestion, confidence) ==
    Entry("app", app, Absent) @@ Entry("activity", activity, Absent)
        @@ Entry("suggestion", suggestion, <<Absent>>)
        @@ Entry("confidence", confidence, NoConfidence)

RawConfidences == {NoConfidence, Float(5), Float(17), Float(0 - 2), NotAFloat}

ParseResponses ==
    {[kind |-> "json", value |-> RawDict(app, activity, suggestion, confidence)] :
        app \in {Absent, "chrome", "VS Code", "Visual Studio Code", "cmd.exe",
                 "Windows PowerShell", NoStr},
        activity \in {Absent, "coding"},
        suggestion \in {<<Absent>>, <<"a", "b">>, PyNone},
        confidence \in RawConfidences}
    \cup {[kind |-> "json", value |-> NotDict("list")]}
    \cup {[kind |-> "text", text |-> text, app_pattern |-> app,
           activity_pattern |-> UNKNOWN] :
            text \in {<<>>, <<"a", "b">>}, app \in {UNKNOWN, "chrome"}}

InitParse ==
    /\ cycle \in {[at |-> "parse", response |-> response] : response \in ParseResponses}
    /\ analyzer = "available"
    /\ last_window = NoWindow
    /\ events = <<>>
    /\ mvp_state = [total_captures |-> 0, memory_items |-> 0]
    /\ pc = "parser"
    /\ memory_data = NewMemory(0)
    /\ memory_file = [kind |-> "missing"]
    /\ ret = [op |-> "none"]
    /\ ScorerIdle
    /\ GuiIdle

\* analyzer.py:91, the call of _parse_gemini_response
Parse ==
    /\ pc = "parser"
    /\ cycle.at = "parse"
    /\ cycle' = [at |-> "parsed", response |-> cycle.response,
                 outcome |-> parse_gemini_response(cycle.response)]
    /\ UNCHANGED <<storeVars, scorerVars, guiVars, pc, analyzer, last_window, events, mvp_state>>

\* json.dumps of an analysis, as a response: the text of a dict that holds
\* every key of the analysis, which json.loads gives back key by key
AsResponse(analysis) == [kind |-> "json", value |-> analysis]

\* The analysis written out as JSON and handed to _parse_gemini_response again
Reparse ==
    /\ pc = "parser"
    /\ cycle.at = "parsed"
    /\ cycle.outcome.raises = "none"
    /\ cycle' = [at |-> "reparsed", response |-> cycle.response,
                 outcome |-> cycle.outcome,
                 again |-> parse_gemini_response(AsResponse(cycle.outcome.analysis))]
    /\ UNCHANGED <<storeVars, scorerVars, guiVars, pc, analyzer, last_window, events, mvp_state>>

NextParse == Parse \/ Reparse

SpecParse == InitParse /\ [][NextParse]_vars

-----------------------------------------------------------------------------
(* CMVisionHybrid.run_single_capture (main.py:133-185), run again and       *)
(* again on one system: capture, analyze and log, save, look up and print, *)
(* update the statistics, return.                                          *)

EventsCap == 1000     \* core/event_stream.py:58

\* What the call to the vision API does in a cycle
VisionOutcomes ==
    {[kind |-> "exception"],
     [kind |-> "json", value |-> RawDict("VS Code", "coding", <<"a", "b">>, Float(9))],
     [kind |-> "json", value |-> RawDict("chrome", "coding", PyNone, NoConfidence)],
     [kind |-> "json", value |-> RawDict("chrome", Absent, <<Absent>>, Float(17))],
     [kind |-> "json", value |-> RawDict(NoStr, "coding", <<"a", "b">>, Float(9))],
     [kind |-> "json", value |-> NotDict("list")],
     [kind |-> "text", text |-> <<"a", "b">>, app_pattern |-> UNKNOWN,
      activity_pattern |-> UNKNOWN]}

\* An analyzer that does not call the API
NotCalled == [kind |-> "not called"]

\* main.py:78-84 and analyzer.py:26-41: the analyzer the system starts with
Analyzers == {"available", "unavailable", "minimal"}

InitPipeline ==
    /\ analyzer \in Analyzers
    /\ last_window = NoWindow
    /\ events = <<>>
    /\ mvp_state = [total_captures |-> 0, memory_items |-> 0]
    /\ cycle = [at |-> "idle"]
    /\ pc = "pipeline"
    /\ memory_file = [kind |-> "missing"]
    /\ memory_data = load_memory(memory_file, 0)
    /\ ret = [op |-> "load"]
    /\ ScorerIdle
    /\ GuiIdle

\* EventStream.events when it is no list: the file held a dict whose
\* "events" is of another type (core/event_stream.py:31-32)
NoList == <<[py_type |-> "int"]>>

\* add_event keeping the first 1000 events instead of the last
add_event_KeepingOldest(stream, event) ==
    LET appended == Append(IF stream = NoList THEN <<>> ELSE stream, event)
    IN  IF Len(appended) > EventsCap THEN SubSeq(appended, 1, EventsCap)
        ELSE appended

\* core/event_stream.py:41-59, add_event: events that is no list is reset,
\* the event is appended, and the last 1000 are kept
add_event(stream, event) ==
    LET appended == Append(IF stream = NoList THEN <<>> ELSE stream, event)
    IN  IF Len(appended) > EventsCap
        THEN SubSeq(appended, Len(appended) - EventsCap + 1, Len(appended))
        ELSE appended

\* main.py:138-145: capture() gives a path, or None when both grabs failed
\* (core/capture.py:22-50) and the cycle returns nothing
CycleCapture(ok) ==
    /\ pc = "pipeline"
    /\ cycle.at \in {"idle", "end"}
    /\ Len(Experiences(memory_data)) < MaxCycles
    /\ cycle' = IF ok THEN [at |-> "analyze"] ELSE [at |-> "end", result |-> "none"]
    /\ UNCHANGED <<storeVars, scorerVars, guiVars, pc, analyzer, last_window, events, mvp_state>>

\* main.py:147-162: analyze, then log the event
CycleAnalyze(vision) ==
    /\ pc = "pipeline"
    /\ cycle.at = "analyze"
    /\ vision = NotCalled <=> analyzer # "available"
    /\ LET analysis == analyze(analyzer, vision)
       IN  /\ cycle' = [at |-> "save", vision |-> vision, analysis |-> analysis]
           /\ events' = add_event(events, [type |-> "capture", app |-> analysis.app,
                                           activity |-> analysis.activity,
                                           mode |-> analysis.mode])
    /\ UNCHANGED <<storeVars, scorerVars, guiVars, pc, analyzer, last_window, mvp_state>>

\* main.py:164-169: save_experience
CycleSave(now, outcome) ==
    /\ pc = "pipeline"
    /\ cycle.at = "save"
    /\ IF save_raises(memory_data) # "none"
       THEN /\ cycle' = [at |-> "end", vision |-> cycle.vision, analysis |-> cycle.analysis,
                         result |-> "raised", error |-> save_raises(memory_data)]
            /\ UNCHANGED <<memory_data, memory_file>>
       ELSE LET experience == NewExperience(NextId(memory_data), cycle.analysis)
            IN  /\ memory_data' = Appended(memory_data, experience, now)
                /\ memory_file' = save_memory(memory_data', memory_file, outcome)
                /\ cycle' = [at |-> "find", vision |-> cycle.vision,
                             analysis |-> cycle.analysis, memory_id |-> experience.id]
    /\ UNCHANGED <<ret, scorerVars, guiVars, pc, analyzer, last_window, events, mvp_state>>

\* main.py:175-176: the first two matches are printed, and slicing the
\* suggestion of one raises when it is no str
PrintRaises(data, similar) ==
    \E i \in 1..Min(2, Len(similar)) :
        ~IsStr(Get(Experiences(data)[similar[i]], "suggestion", NoSuggestion))

\* main.py:171-176: find_similar, then the matches are printed
CycleFind ==
    /\ pc = "pipeline"
    /\ cycle.at = "find"
    /\ LET similar == find_similar(memory_data, cycle.analysis, DefaultLimit)
       IN  cycle' = IF PrintRaises(memory_data, similar)
                    THEN [at |-> "end", vision |-> cycle.vision,
                          analysis |-> cycle.analysis,
                          result |-> "raised", error |-> "TypeError"]
                    ELSE [at |-> "stats", vision |-> cycle.vision,
                          analysis |-> cycle.analysis, similar |-> similar]
    /\ UNCHANGED <<storeVars, scorerVars, guiVars, pc, analyzer, last_window, events, mvp_state>>

\* main.py:178-185: the statistics are updated and the analysis is returned
CycleReturn ==
    /\ pc = "pipeline"
    /\ cycle.at = "stats"
    /\ mvp_state' = [total_captures |-> mvp_state.total_captures + 1,
                     memory_items |-> Len(Experiences(memory_data))]
    /\ cycle' = [at |-> "end", vision |-> cycle.vision, analysis |-> cycle.analysis,
                 result |-> "analysis"]
    /\ UNCHANGED <<storeVars, scorerVars, guiVars, pc, analyzer, last_window, events>>

NextPipeline ==
    \/ \E ok \in BOOLEAN : CycleCapture(ok)
    \/ \E vision \in VisionOutcomes \cup {NotCalled} : CycleAnalyze(vision)
    \/ \E now \in Times, outcome \in WriteOutcomes : CycleSave(now, outcome)
    \/ CycleFind
    \/ CycleReturn

SpecPipeline == InitPipeline /\ [][NextPipeline]_vars

-----------------------------------------------------------------------------
(* CMVisionHybrid.run_cli_mode (main.py:187-265): the loop of the CLI, one  *)
(* step per call it makes. `cycle` holds the locals of the loop: where it   *)
(* stands, capture_count, and whether the loop has slept since its last     *)
(* capture attempt. The milestones journal of the tracker is written and    *)
(* never read by the loop, and is left out.                                 *)

\* An error text the screen can show
FirebaseDenied == "Firebase permission denied"

\* What the analyzer makes of a screen: the analysis, whose error_detected
\* tells whether errors were seen, and the error texts themselves, which no
\* key of the analysis carries (analyzer.py:135-143)
Seen(analysis, errors) ==
    [analysis |-> Put(analysis, "error_detected", errors # {}), errors |-> errors]

Screens ==
    {Seen(Analysis("editor", "coding", <<"a", "b">>, Float(9), "gemini_json"), {}),
     Seen(Analysis("editor", "coding", <<"b">>, Float(9), "gemini_json"),
          {FirebaseDenied}),
     Seen(Analysis(UNKNOWN, UNKNOWN, <<>>, Float(5), "gemini_json"), {}),
     Seen(Analysis("chrome", "coding", PyInt, Float(5), "gemini_json"), {})}

\* What the loop prints as its suggestion
NoneGiven == [kind |-> "none"]
Text(text) == [kind |-> "text", text |-> text]

InitCli ==
    /\ analyzer = "available"
    /\ last_window = NoWindow
    /\ events = <<>>
    /\ mvp_state = [total_captures |-> 0, memory_items |-> 0, suggestions_given |-> 0]
    /\ cycle = [at |-> "capture", capture_count |-> 0, rested |-> TRUE]
    /\ pc = "cli"
    /\ memory_file = [kind |-> "missing"]
    /\ memory_data = load_memory(memory_file, 0)
    /\ ret = [op |-> "load"]
    /\ ScorerIdle
    /\ GuiIdle

\* main.py:198-203: capture(); on None the body of the iteration is skipped
\* and the loop is at its top again, without a sleep
CliCapture(ok) ==
    /\ pc = "cli"
    /\ cycle.at = "capture"
    /\ Len(Experiences(memory_data)) < MaxCaptures
    /\ cycle' = [at |-> IF ok THEN "analyze" ELSE "capture",
                 capture_count |-> cycle.capture_count, rested |-> FALSE]
    /\ UNCHANGED <<storeVars, scorerVars, guiVars, pc, analyzer, last_window, events, mvp_state>>

\* main.py:206-211: analyze
CliAnalyze(screen) ==
    /\ pc = "cli"
    /\ cycle.at = "analyze"
    /\ cycle' = [at |-> "save", capture_count |-> cycle.capture_count,
                 rested |-> cycle.rested,
                 analysis |-> screen.analysis, errors |-> screen.errors]
    /\ UNCHANGED <<storeVars, scorerVars, guiVars, pc, analyzer, last_window, events, mvp_state>>

\* main.py:214-223: save_experience
CliSave(now, outcome) ==
    /\ pc = "cli"
    /\ cycle.at = "save"
    /\ LET experience == NewExperience(NextId(memory_data), cycle.analysis)
       IN  /\ memory_data' = Appended(memory_data, experience, now)
           /\ memory_file' = save_memory(memory_data', memory_file, outcome)
           /\ cycle' = [at |-> "find", capture_count |-> cycle.capture_count,
                        rested |-> cycle.rested,
                        analysis |-> cycle.analysis, errors |-> cycle.errors,
                        memory_id |-> experience.id]
    /\ UNCHANGED <<ret, scorerVars, guiVars, pc, analyzer, last_window, events, mvp_state>>

\* main.py:229-233: the suggestion of the best match, when there is a
\* match and its suggestion is true; the first 80 characters are printed
cli_suggestion(data, similar) ==
    IF similar = <<>> THEN NoneGiven
    ELSE LET suggestion == Get(Experiences(data)[similar[1]], "suggestion", PyNone)
         IN  IF Truthy(suggestion)
             THEN Text(SubSeq(suggestion, 1, Min(80, Len(suggestion))))
             ELSE NoneGiven

\* main.py:233: slicing a suggestion that is true and no str raises
\* TypeError, which only the KeyboardInterrupt handler stands around
cli_suggestion_raises(data, similar) ==
    /\ similar # <<>>
    /\ LET suggestion == Get(Experiences(data)[similar[1]], "suggestion", PyNone)
       IN  Truthy(suggestion) /\ ~IsStr(suggestion)

\* main.py:226-233: find_similar, then the suggestion
CliSuggest ==
    /\ pc = "cli"
    /\ cycle.at = "find"
    /\ LET similar == find_similar(memory_data, cycle.analysis, DefaultLimit)
       IN  cycle' = IF cli_suggestion_raises(memory_data, similar)
                    THEN [at |-> "stopped", capture_count |-> cycle.capture_count,
                          rested |-> cycle.rested, error |-> "TypeError"]
                    ELSE [at |-> "log", capture_count |-> cycle.capture_count,
                          rested |-> cycle.rested,
                          analysis |-> cycle.analysis, errors |-> cycle.errors,
                          memory_id |-> cycle.memory_id, similar |-> similar,
                          suggestion |-> cli_suggestion(memory_data, similar)]
    /\ UNCHANGED <<storeVars, scorerVars, guiVars, pc, analyzer, last_window, events, mvp_state>>

\* main.py:236-250: the event, the count and the statistics
CliLog ==
    /\ pc = "cli"
    /\ cycle.at = "log"
    /\ events' = add_event(events, [type |-> "analysis", memory_id |-> cycle.memory_id,
                                    app |-> Get(cycle.analysis, "app", UNKNOWN),
                                    similar_count |-> Len(cycle.similar)])
    /\ mvp_state' = [total_captures |-> cycle.capture_count + 1,
                     memory_items |-> cycle.memory_id,
                     suggestions_given |-> mvp_state.suggestions_given
                                            + (IF cycle.similar # <<>> THEN 1 ELSE 0)]
    /\ cycle' = [at |-> "wait", capture_count |-> cycle.capture_count + 1,
                 rested |-> cycle.rested,
                 analysis |-> cycle.analysis, errors |-> cycle.errors,
                 memory_id |-> cycle.memory_id, similar |-> cycle.similar,
                 suggestion |-> cycle.suggestion]
    /\ UNCHANGED <<storeVars, scorerVars, guiVars, pc, analyzer, last_window>>

\* main.py:253-264: time.sleep, for the rest of the interval or a second
CliWait ==
    /\ pc = "cli"
    /\ cycle.at = "wait"
    /\ cycle' = [at |-> "capture", capture_count |-> cycle.capture_count,
                 rested |-> TRUE]
    /\ UNCHANGED <<storeVars, scorerVars, guiVars, pc, analyzer, last_window, events, mvp_state>>

\* main.py:266-268: Ctrl+C ends the loop, which returns capture_count
CliInterrupt ==
    /\ pc = "cli"
    /\ cycle.at # "stopped"
    /\ cycle' = [at |-> "stopped", capture_count |-> cycle.capture_count,
                 rested |-> cycle.rested, error |-> "KeyboardInterrupt"]
    /\ UNCHANGED <<storeVars, scorerVars, guiVars, pc, analyzer, last_window, events, mvp_state>>

NextCli ==
    \/ \E ok \in BOOLEAN : CliCapture(ok)
    \/ \E screen \in Screens : CliAnalyze(screen)
    \/ \E now \in Times, outcome \in WriteOutcomes : CliSave(now, outcome)
    \/ CliSuggest
    \/ CliLog
    \/ CliWait
    \/ CliInterrupt

SpecCli == InitCli /\ [][NextCli]_vars

-----------------------------------------------------------------------------
(* The EventStream of core/event_stream.py on its own: it is loaded from    *)
(* its file, then events are added and the recent ones asked for. An event  *)
(* keeps its type and its timestamp.                                        *)

\* An event file of n events written earlier
StoredEvents(n) == [i \in 1..n |-> [type |-> "stored", timestamp |-> i - n]]

\* What the event file may hold when the stream is made
EventFiles ==
    {[kind |-> "missing"], [kind |-> "corrupt"], [kind |-> "other"],
     [kind |-> "dict", events |-> StoredEvents(2)],
     [kind |-> "dict", events |-> NoList]}
    \cup {[kind |-> "list", events |-> StoredEvents(n)] :
             n \in {0, EventsCap - 1, EventsCap, EventsCap + 2}}

\* core/event_stream.py:22-39, _load_events: a list as it is, the "events"
\* of a dict whatever it is, and an empty list for everything else
load_events(file) ==
    IF file.kind \in {"list", "dict"} THEN file.events ELSE <<>>

\* Python's seq[start:]
SliceFrom(seq, start) ==
    SubSeq(seq, 1 + (IF start >= 0 THEN Min(start, Len(seq))
                     ELSE Max(Len(seq) + start, 0)), Len(seq))

\* core/event_stream.py:95-99, get_recent_activity: events[-limit:]
get_recent_activity(stream, limit) ==
    IF stream = NoList THEN <<>>
    ELSE IF stream # <<>> THEN SliceFrom(stream, 0 - limit) ELSE <<>>

InitEvents ==
    /\ \E file \in EventFiles : events = load_events(file)
    /\ cycle = [at |-> "stream", added |-> 0]
    /\ analyzer = "none"
    /\ last_window = NoWindow
    /\ mvp_state = [total_captures |-> 0, memory_items |-> 0]
    /\ pc = "events"
    /\ memory_data = NewMemory(0)
    /\ memory_file = [kind |-> "missing"]
    /\ ret = [op |-> "load"]
    /\ ScorerIdle
    /\ GuiIdle

AddEvent(type) ==
    /\ pc = "events"
    /\ cycle.added < MaxAdds
    /\ LET event == [type |-> type, timestamp |-> cycle.added + 1]
       IN  /\ events' = add_event(events, event)
           /\ ret' = [op |-> "add", event |-> event]
    /\ cycle' = [at |-> "stream", added |-> cycle.added + 1]
    /\ UNCHANGED <<memory_data, memory_file, scorerVars, guiVars, pc, analyzer,
                   last_window, mvp_state>>

GetRecentActivity(limit) ==
    /\ pc = "events"
    /\ ret' = [op |-> "recent", limit |-> limit,
               result |-> get_recent_activity(events, limit)]
    /\ UNCHANGED <<memory_data, memory_file, scorerVars, guiVars, pc, pipelineVars>>

NextEvents ==
    \/ \E type \in {"capture", "analysis"} : AddEvent(type)
    \/ \E limit \in 0..MaxLimit : GetRecentActivity(limit)

SpecEvents == InitEvents /\ [][NextEvents]_vars

-----------------------------------------------------------------------------
(* The EventStream of capture/event_stream.py: captures and analyses are    *)
(* logged on a new stream. A UserEvent keeps its event_type, app and        *)
(* window_title; window_info is a dict that may hold "title" and "app".     *)

UserEvent(event_type, app, window_title) ==
    [event_type |-> event_type, app |-> app, window_title |-> window_title]

\* x or default, on texts: the empty text is false, like a missing value
Or(x, default) == IF x \in {Absent, ""} THEN default ELSE x

\* window_info.get("title") or "Unknown" (capture/event_stream.py:62, 132)
TitleOf(window_info) == Or(Get(window_info, "title", Absent), "Unknown")

\* _detect_window_change that does not remember the window it saw
detect_window_change_Forgetting(stream, last, window_info) ==
    LET current_window == TitleOf(window_info)
        current_app == Or(Get(window_info, "app", Absent), UNKNOWN)
    IN  IF last # current_window
        THEN [events |-> Append(stream, UserEvent("window_change", current_app,
                                                  current_window)),
              last_window |-> last]
        ELSE [events |-> stream, last_window |-> last]

\* capture/event_stream.py:130-149, _detect_window_change: the events and
\* the last_window it leaves
detect_window_change(stream, last, window_info) ==
    LET current_window == TitleOf(window_info)
        current_app == Or(Get(window_info, "app", Absent), UNKNOWN)
    IN  IF last # current_window
        THEN [events |-> Append(stream, UserEvent("window_change", current_app,
                                                  current_window)),
              last_window |-> current_window]
        ELSE [events |-> stream, last_window |-> last]

\* capture/event_stream.py:59-82, log_capture
log_capture(stream, last, window_info) ==
    LET window_title == TitleOf(window_info)
        app == Or(Get(window_info, "app", Absent), UNKNOWN)
    IN  detect_window_change(Append(stream, UserEvent("capture", app, window_title)),
                             last, window_info)

WindowInfos ==
    {Entry("title", title, Absent) @@ Entry("app", app, Absent) :
        title \in {Absent, "", "Unknown", "editor.py"}, app \in {Absent, "editor"}}

\* capture/event_stream.py:47-51, __init__
InitCaptureStream ==
    /\ events = <<>>
    /\ last_window = NoWindow
    /\ cycle = [at |-> "stream", added |-> 0]
    /\ analyzer = "none"
    /\ mvp_state = [total_captures |-> 0, memory_items |-> 0]
    /\ pc = "capture stream"
    /\ memory_data = NewMemory(0)
    /\ memory_file = [kind |-> "missing"]
    /\ ret = [op |-> "none"]
    /\ ScorerIdle
    /\ GuiIdle

LogCapture(window_info) ==
    /\ pc = "capture stream"
    /\ cycle.added < MaxAdds
    /\ events' = log_capture(events, last_window, window_info).events
    /\ last_window' = log_capture(events, last_window, window_info).last_window
    /\ ret' = [op |-> "log_capture", window_info |-> window_info]
    /\ cycle' = [at |-> "stream", added |-> cycle.added + 1]
    /\ UNCHANGED <<memory_data, memory_file, scorerVars, guiVars, pc, analyzer, mvp_state>>

\* capture/event_stream.py:84-108, log_analysis: window_context is the
\* title of the event
LogAnalysis(analysis_result) ==
    /\ pc = "capture stream"
    /\ cycle.added < MaxAdds
    /\ events' = Append(events,
                        UserEvent("analysis",
                                  Or(Get(analysis_result, "app_detected", Absent), UNKNOWN),
                                  Or(Get(analysis_result, "window_context", Absent),
                                     "Unknown")))
    /\ ret' = [op |-> "log_analysis"]
    /\ cycle' = [at |-> "stream", added |-> cycle.added + 1]
    /\ UNCHANGED <<memory_data, memory_file, scorerVars, guiVars, pc, analyzer,
                   last_window, mvp_state>>

NextCaptureStream ==
    \/ \E window_info \in WindowInfos : LogCapture(window_info)
    \/ \E analysis_result \in {<<>>, [window_context |-> "editor.py"]} :
          LogAnalysis(analysis_result)

SpecCaptureStream == InitCaptureStream /\ [][NextCaptureStream]_vars

-----------------------------------------------------------------------------
(* The scorer on its own: two analyses are drawn, then scored both ways.   *)

ScoreApps == {Absent, UNKNOWN, "editor", "Editor"}
ScoreActivities == {Absent, UNKNOWN, "coding"}

ScoreAnalyses(n) ==
    {MkAnalysis(app, activity, suggestion) :
        app \in ScoreApps, activity \in ScoreActivities,
        suggestion \in Texts(n) \cup {<<Absent>>}}

StoreIdle ==
    /\ memory_data = NewMemory(0)
    /\ memory_file = [kind |-> "missing"]
    /\ ret = [op |-> "none"]

InitScore ==
    /\ a1 \in ScoreAnalyses(MaxTextLen)
    /\ a2 \in ScoreAnalyses(MaxTextLen)
    /\ sim12 = Tenths(0)
    /\ sim21 = Tenths(0)
    /\ pc = "ready"
    /\ StoreIdle
    /\ GuiIdle
    /\ PipelineIdle

\* memory.py:111-138 called with (a1, a2) and with (a2, a1)
Score ==
    /\ pc = "ready"
    /\ sim12' = calculate_similarity(a1, a2)
    /\ sim21' = calculate_similarity(a2, a1)
    /\ pc' = "scored"
    /\ UNCHANGED <<storeVars, guiVars, a1, a2, pipelineVars>>

NextScore == Score

SpecScore == InitScore /\ [][NextScore]_vars

(* The scorer on longer texts, with the labels kept few *)

SymAnalyses ==
    {MkAnalysis("editor", activity, suggestion) :
        activity \in {UNKNOWN, "coding"}, suggestion \in Texts(MaxTextLen + 2)}

InitSym ==
    /\ a1 \in SymAnalyses
    /\ a2 \in SymAnalyses
    /\ sim12 = Tenths(0)
    /\ sim21 = Tenths(0)
    /\ pc = "ready"
    /\ StoreIdle
    /\ GuiIdle
    /\ PipelineIdle

SpecSym == InitSym /\ [][NextScore]_vars

-----------------------------------------------------------------------------
(* Claims about the store *)

Stored == Experiences(memory_data)
Answered == ret.op \in {"find", "cycle"}

\* The score find_similar gave the experience at place `at` for the last query
ScoreAt(at) == calculate_similarity(ret.query, ExpAnalysis(Stored[at]))

\* C1: after any sequence of save_experience calls the store holds at most
\* N_max experiences, and once more were appended it holds the N_max most
\* recently appended ones in the order they were appended (the store starts
\* empty here, so the k-th append carries id k).
C1_AtMostNmaxMostRecent ==
    /\ Len(Stored) <= N_max
    /\ ret.op = "save" =>
          \A i \in 1..Len(Stored) : Stored[i].id = ret.id - Len(Stored) + i

\* C2: a newly assigned id is greater than every id already in the store,
\* whatever file the store was loaded from.
C2_NewIdAboveAll ==
    ret.op \in {"save", "cycle"} =>
        \A i \in 1..(Len(Stored) - 1) : Stored[i].id < ret.id

\* C3: find_similar returns at most `limit` results (none for a limit below
\* zero), each scoring strictly above the threshold against the query.
C3_AtMostLimitAboveThreshold ==
    Answered =>
        /\ Len(ret.similar) <= Max(ret.limit, 0)
        /\ \A i \in 1..Len(ret.similar) : RatGt(ScoreAt(ret.similar[i]), Threshold)

C5_OnlyPastObservations ==
    ret.op = "cycle" =>
        /\ \A i \in 1..Len(ret.similar) : ret.similar[i] # Len(Stored)
        /\ ret.shown # <<Len(Stored)>>

\* C6: at most one pipeline run is in flight at any time, so no two
\* save_experience calls compute the same id.
C6_OnePipelineInFlight ==
    /\ Cardinality({t \in DOMAIN threads : InFlight(threads[t])}) <= 1
    /\ \A i, j \in 1..Len(Stored) : i # j => Stored[i].id # Stored[j].id

\* C11: find_similar is read-only: whatever the store holds and whatever
\* the query, a call leaves memory_data (the sequence of experiences, every
\* field of each, last_updated) and the persisted file unchanged.
C11_FindSimilarReadOnly ==
    [][(ret'.op = "find" \/ (ret'.op = "raise" /\ ret'.call = "find"))
          => memory_data' = memory_data /\ memory_file' = memory_file]_vars

\* find_similar has returned matches from a store loaded from a document
\* written earlier and not saved to since
C11_Witness ==
    /\ ret.op = "find"
    /\ ret.similar = <<2>>
    /\ memory_file.kind = "doc"
    /\ memory_data.last_updated = 0
    /\ "future" \in DOMAIN memory_data

\* No experience of the window scores above the threshold against `query`
NoneClears(query) ==
    \A at \in Max(1, Len(Stored) - Window + 1)..Len(Stored) :
        ~RatGt(calculate_similarity(query, ExpAnalysis(Stored[at])), Threshold)

\* C12: find_similar returns the empty sequence when the store is empty and
\* when no candidate scores above the threshold, and it does not raise on a
\* store that holds a document.
C12_EmptyWhenNothingClears ==
    /\ (ret.op = "find" /\ NoneClears(ret.query)) => ret.similar = <<>>
    /\ (ret.op = "raise" /\ ret.call = "find") => IllTyped(memory_data)

\* A query that scores exactly 0.3 against the one stored experience, asked
\* with a positive limit, was answered with nothing
C12_Witness ==
    /\ ret.op = "find"
    /\ ret.limit = 1
    /\ ret.query = MkAnalysis(UNKNOWN, UNKNOWN, <<"a", "b">>)
    /\ Len(Stored) = 1
    /\ Stored[1].analysis = EditorCoding
    /\ RatEq(ScoreAt(1), Threshold)
    /\ ret.similar = <<>>

\* C13: a find_similar call with a negative limit is a declared error: it
\* does not return.
C13_NegativeLimitIsError == ret.op = "find" => ret.limit >= 0

\* C14: whatever the memory file holds (nothing, text json cannot parse, or
\* JSON of another shape than the document's), loading does not raise and
\* leaves a store on which save_experience, find_similar and get_statistics
\* work.
C14_LoadFallsBackToEmptyStore ==
    /\ pc # "crashed"
    /\ ~IllTyped(memory_data)
    /\ ret.op # "raise"

\* The file holds what the last successful write left of memory_data
FileIsCurrent == memory_file = [kind |-> "doc", data |-> memory_data]

\* C15: when the write fails during save_experience, the call still returns
\* the id of the new experience, which stays appended to the in-memory
\* store; and while the file lags behind the store, no later call raises.
C15_FailedWriteKeepsStore ==
    [][/\ (/\ ~IllTyped(memory_data)
           /\ \E analysis \in StoreAnalyses, now \in Times,
                 outcome \in {"open_fails", "dump_fails"} :
                 SaveExperience(analysis, now, outcome, MaxStore))
          => /\ ret'.op = "save"
             /\ ret'.id = Len(Stored) + 1
             /\ Len(Experiences(memory_data')) = Len(Stored) + 1
             /\ Experiences(memory_data')[Len(Stored) + 1].id = ret'.id
             /\ SubSeq(Experiences(memory_data'), 1, Len(Stored)) = Stored
       /\ (~IllTyped(memory_data) /\ ~FileIsCurrent /\ pc' = "store")
          => ret'.op # "raise"]_vars

\* After two appends whose writes failed, never a successful one, a query
\* was answered from the in-memory store
C15_Witness ==
    /\ memory_file = [kind |-> "missing"]
    /\ Len(Stored) = 2
    /\ ret.op = "find"
    /\ ret.similar = <<1, 2>>

\* A save_experience call, alone or in a pipeline cycle, on a store that
\* holds a document, whose write succeeded
SavedAndFlushed ==
    /\ ~IllTyped(memory_data)
    /\ \E analysis \in StoreAnalyses, now \in Times :
          \/ SaveExperience(analysis, now, "ok", MaxStore)
          \/ PipelineCycle(analysis, now, "ok")

\* C16: round trip: after a save_experience call whose write succeeded,
\* whatever calls came before it, a fresh MVPMemory on the same file loads
\* without raising and holds the same experiences in the same order, each
\* with the same fields and values.
C16_RoundTrip ==
    [][SavedAndFlushed
          => /\ load_raises(memory_file') = "none"
             /\ Experiences(load_memory(memory_file', 1)) = Experiences(memory_data')]_vars

\* A store loaded from the older document has appended an analysis that
\* holds an app only, and the file is what that write left
C16_Witness ==
    /\ ret.op = "save"
    /\ FileIsCurrent
    /\ memory_data.version = "0.1.0"
    /\ Len(Stored) = 2
    /\ Stored[1] = Put(LegacyExperience, "analysis", AnalysisFromFields(LegacyExperience))
    /\ Stored[2].analysis = MkAnalysis("editor", Absent, <<Absent>>)

\* The members of a dict other than those in `known`
Unknown(d, known) == DOMAIN d \ known

\* The dict holds `value` under `key`
Holds(d, key, value) == key \in DOMAIN d /\ d[key] = value

\* C17: a document with members this version does not know, at document
\* level or inside an experience, loads without raising with every such
\* member kept, and the members are in the file again after the next save
\* whose write succeeds; an experience without the optional fields loads,
\* and is scored as app "unknown", activity "unknown" and an empty text.
C17_ForwardReadable ==
    /\ [][(\E now \in Times : Restart(now))
            /\ memory_file.kind = "doc" /\ ~IllTyped(memory_file.data)
            /\ "experiences" \in DOMAIN memory_file.data
          => /\ pc' = "store"
             /\ \A k \in Unknown(memory_file.data, {"experiences"}) :
                    Holds(memory_data', k, memory_file.data[k])
             /\ \A i \in 1..Len(memory_file.data.experiences) :
                    LET exp == memory_file.data.experiences[i]
                    IN  /\ \A k \in Unknown(exp, {"analysis"}) :
                              Holds(Experiences(memory_data')[i], k, exp[k])
                        /\ Unknown(exp, {"id", "future"}) = {}
                              => ExpAnalysis(Experiences(memory_data')[i])
                                   = MkAnalysis(UNKNOWN, UNKNOWN, <<>>)]_vars
    /\ [][SavedAndFlushed
          => /\ \A k \in Unknown(memory_data, {"experiences", "last_updated"}) :
                    Holds(memory_file'.data, k, memory_data[k])
             /\ \A i \in 1..Len(Stored) :
                    Experiences(memory_file'.data)[i] = Stored[i]]_vars

\* The later document was loaded, saved to, loaded again and queried: its
\* unknown members are in the store and in the file, and the experience
\* without optional fields did not match
C17_Witness ==
    /\ ret.op = "find"
    /\ ret.query = EditorCoding
    /\ ret.similar = <<2, 3>>
    /\ FileIsCurrent
    /\ Len(Stored) = 3
    /\ memory_file.data.future = "x"
    /\ memory_file.data.experiences[2].future = "x"
    /\ Unknown(memory_file.data.experiences[1], {"id", "analysis"}) = {}

-----------------------------------------------------------------------------
(* Claims about the scorer *)

App(analysis) == Get(analysis, "app", UNKNOWN)
Activity(analysis) == Get(analysis, "activity", UNKNOWN)
Suggestion(analysis) == Get(analysis, "suggestion", <<>>)

\* The score of (a1, a2) is the activity and text signals plus `appPart`
ScoreIsAppPartPlusRest(appPart) ==
    RatEq(sim12, RatAdd(RatAdd(appPart, ActivitySignal(a1, a2)), TextSignal(a1, a2)))

\* C7: scoring is symmetric: _calculate_similarity(a, b) equals
\* _calculate_similarity(b, a) for all pairs of analyses.
C7_Symmetric == pc = "scored" => RatEq(sim12, sim21)

\* C8, as claimed: the app signal adds 0.4 exactly when the two app labels
\* are equal ignoring letter case and neither is "unknown", and nothing
\* otherwise.
C8_AppSignalIgnoringCase ==
    pc = "scored" =>
        ScoreIsAppPartPlusRest(
            IF /\ LowerLabel(App(a1)) = LowerLabel(App(a2))
               /\ App(a1) # UNKNOWN
               /\ App(a2) # UNKNOWN
            THEN Tenths(4) ELSE Tenths(0))

\* C8, amended: the app signal adds 0.4 exactly when the two app labels are
\* the same string, letter case included, and that string is not "unknown"
\* (a missing label counting as "unknown"); it adds nothing otherwise.
C8_AppSignalExactMatch ==
    pc = "scored" =>
        ScoreIsAppPartPlusRest(
            IF App(a1) = App(a2) /\ App(a1) # UNKNOWN
            THEN Tenths(4) ELSE Tenths(0))

\* Two labels that differ in letter case only have been scored, and so have
\* two equal ones.
C8_Witness ==
    /\ pc = "scored"
    /\ App(a1) = "editor"
    /\ App(a2) = "Editor"
    /\ Activity(a1) = UNKNOWN
    /\ Suggestion(a1) = <<>>
    /\ RatEq(sim12, Tenths(0))

\* C9: for all pairs of analyses, also with missing fields, the score lies
\* in [0.0, 1.0].
C9_ScoreInUnitInterval ==
    pc = "scored" => RatGe(sim12, Tenths(0)) /\ RatGe(Tenths(10), sim12)

\* A pair with missing fields has been scored: only the activities match
C9_Witness ==
    /\ pc = "scored"
    /\ "suggestion" \notin DOMAIN a1
    /\ "app" \notin DOMAIN a2
    /\ RatEq(sim12, Tenths(3))

\* C10: an analysis whose app and activity are both not "unknown" scores at
\* least 0.7 against itself: 0.7 when its suggestion is empty, 1.0 when not.
C10_SelfSimilarity ==
    (/\ pc = "scored"
     /\ a1 = a2
     /\ App(a1) # UNKNOWN
     /\ Activity(a1) # UNKNOWN)
    => RatEq(sim12, IF Suggestion(a1) = <<>> THEN Tenths(7) ELSE Tenths(10))

\* An analysis with a mixed-case suggestion has been scored against itself
C10_Witness ==
    /\ pc = "scored"
    /\ a1 = a2
    /\ App(a1) = "Editor"
    /\ Activity(a1) = "coding"
    /\ Suggestion(a1) = <<"A", "b">>
    /\ RatEq(sim12, Tenths(10))

-----------------------------------------------------------------------------
(* Claims about the analyzer and the pipeline *)

\* The cycle has an analysis in hand: the one save_experience is given
Analysed == "analysis" \in DOMAIN cycle

\* The vision collaborator failed in this cycle: there is no usable API key
\* or the analyzer is the stand-in, the call raised, or the response is
\* text json cannot parse, a value that is no dict, or a dict whose app is
\* no str.
VisionFailed ==
    \/ analyzer # "available"
    \/ cycle.vision.kind \in {"exception", "text"}
    \/ cycle.vision.kind = "json" /\ parse_gemini_response(cycle.vision).raises # "none"

\* C18: when the vision collaborator fails, the analysis handed to the
\* store is a fallback one, with confidence 0.0 and mode "fallback", and the
\* failure does not leave the cycle as an exception.
C18_FallbackObservation ==
    (Analysed /\ VisionFailed)
        => /\ cycle.analysis.confidence = Float(0)
           /\ cycle.analysis.mode = "fallback"
           /\ cycle.at = "end" => cycle.result # "raised"

\* C19: a pipeline cycle that has ended has returned an analysis, whatever
\* capture and the vision call did: it has not returned nothing and has not
\* raised.
C19_CycleReturnsAnalysis == cycle.at = "end" => cycle.result = "analysis"

\* The raw confidence of the response parsed, NoConfidence where the
\* response holds none
RawConfidence ==
    IF cycle.response.kind = "json" /\ ~IllTyped(cycle.response.value)
    THEN Get(cycle.response.value, "confidence", NoConfidence)
    ELSE NoConfidence

InUnitRange(confidence) ==
    /\ confidence.py_type = "float"
    /\ confidence.tenths >= 0
    /\ confidence.tenths <= 10

\* C20: parsing never raises, the confidence of the analysis it gives is a
\* number in [0.0, 1.0], and it is 0.0 when the raw confidence is absent,
\* no number, or out of that range.
C20_ConfidenceNormalized ==
    cycle.at = "parsed"
        => /\ cycle.outcome.raises = "none"
           /\ InUnitRange(cycle.outcome.analysis.confidence)
           /\ ~InUnitRange(RawConfidence)
                 => cycle.outcome.analysis.confidence = Float(0)

\* C21: normalizing the mapping form of an analysis the normalizer gave out
\* raises nothing and gives the identical analysis.
C21_NormalizeIdempotent ==
    cycle.at = "reparsed" =>
        /\ cycle.again.raises = "none"
        /\ cycle.again.analysis = cycle.outcome.analysis

\* C23: every experience find_similar returns is among the 50 appended
\* last, however many the store holds.
C23_BoundedWindow ==
    ret.op = "find" =>
        \A i \in 1..Len(ret.similar) : ret.similar[i] > Len(Stored) - Window

\* A store longer than the window was queried, experiences before the
\* window matched the query, and matches were returned
C23_Witness ==
    /\ ret.op = "find"
    /\ Len(Stored) > Window
    /\ ret.similar # <<>>
    /\ RatGt(calculate_similarity(ret.query, ExpAnalysis(Stored[1])), Threshold)

\* The two analyses carry the same app, or the same activity, and that
\* label is not "unknown"
SharesLabel(analysis1, analysis2) ==
    \/ /\ Get(analysis1, "app", UNKNOWN) = Get(analysis2, "app", UNKNOWN)
       /\ Get(analysis1, "app", UNKNOWN) # UNKNOWN
    \/ /\ Get(analysis1, "activity", UNKNOWN) = Get(analysis2, "activity", UNKNOWN)
       /\ Get(analysis1, "activity", UNKNOWN) # UNKNOWN

\* C26: an experience find_similar returns shares a known app or a known
\* activity with the query; the suggestion texts alone, however alike,
\* never bring an experience over the threshold.
C26_NoMatchOnTextAlone ==
    ret.op \in {"find", "cycle"} =>
        \A i \in 1..Len(ret.similar) :
            SharesLabel(ret.query, ExpAnalysis(Stored[ret.similar[i]]))

\* The store was queried with an analysis that is unknown/unknown and
\* carries a suggestion, it holds an experience that is unknown/unknown with
\* the very same suggestion, and that experience was not returned
C26_Witness ==
    /\ ret.op = "find"
    /\ ret.limit > 0
    /\ Get(ret.query, "app", UNKNOWN) = UNKNOWN
    /\ Get(ret.query, "activity", UNKNOWN) = UNKNOWN
    /\ Get(ret.query, "suggestion", <<>>) # <<>>
    /\ \E i \in 1..Len(Stored) :
          /\ ExpAnalysis(Stored[i]) = ret.query
          /\ \A j \in 1..Len(ret.similar) : ret.similar[j] # i

-----------------------------------------------------------------------------
(* Claims about the loop of the CLI *)

\* The loop has chosen what it prints as the suggestion of this iteration
Suggested == pc = "cli" /\ cycle.at \in {"log", "wait"}

\* The experience find_similar put first
BestMatch == Experiences(memory_data)[cycle.similar[1]]

\* The last three experiences carry one app, which is not "unknown"
SameAppThrice ==
    LET experiences == Experiences(memory_data)
        n == Len(experiences)
    IN  /\ n >= 3
        /\ experiences[n].app # UNKNOWN
        /\ \A i \in (n - 2)..n : experiences[i].app = experiences[n].app

\* The rule table of the suggestion policy, first match first
RuleTable ==
    IF FirebaseDenied \in cycle.errors
    THEN [kind |-> "remediation", of |-> FirebaseDenied]
    ELSE IF cycle.similar # <<>> /\ Get(ExpAnalysis(BestMatch), "error_detected", FALSE)
    THEN [kind |-> "seen before", id |-> BestMatch.id]
    ELSE IF SameAppThrice THEN [kind |-> "same app"]
    ELSE NoneGiven

\* C22: the suggestion of an iteration is the one the first matching rule
\* gives: the canned remediation when the errors hold a known failure
\* keyword, else a pointer to the most similar experience when that one had
\* errors, else the same-app nudge when the last three experiences share a
\* known app, else none.
C22_FirstMatchingRule == Suggested => cycle.suggestion = RuleTable
\* C29: a capture attempt of the loop is its first, or the loop has slept
\* since the attempt before it, whether or not that attempt gave a
\* screenshot.
C29_WaitBetweenCaptures ==
    [][(pc = "cli" /\ cycle.at = "capture" /\ cycle'.at # "stopped") => cycle.rested]_vars
-----------------------------------------------------------------------------
(* Claims about the loop threads of the GUI *)

\* The loop threads that are inside a pipeline cycle
LoopsInCycle ==
    {t \in DOMAIN threads :
        /\ threads[t].kind = "loop"
        /\ threads[t].at \in {"capture", "save_id", "save_append", "save_flush",
                              "find", "done"}}

\* C25: whatever Start and Stop presses were made, at most one loop thread
\* is inside a pipeline cycle at a time.
C25_OneLoopAtATime == Cardinality(LoopsInCycle) <= 1

\* C28: when save_experience appends, the id it returns is the number of
\* experiences the store holds right after the append.
C28_IdIsItemCount ==
    [][\A t \in DOMAIN threads :
          (threads[t].at = "save_append" /\ threads'[t].at = "save_flush")
              => threads[t].id = Len(Experiences(memory_data'))]_vars
-----------------------------------------------------------------------------
(* Claims about the event streams *)

\* Python's len(events) before a call, an events that is no list counting
\* as empty
EventsBefore == IF events = NoList THEN <<>> ELSE events

\* C24: the recent-entries query with a limit of 0 or more returns the
\* last min(limit, stored count) entries, in storage order.
C24_RecentIsLastLimit ==
    (ret.op = "recent" /\ ret.limit >= 0) =>
        LET count == Min(ret.limit, Len(EventsBefore))
        IN  ret.result = SubSeq(EventsBefore, Len(EventsBefore) - count + 1,
                                Len(EventsBefore))

\* C27: after add_event, whatever events was before, events is a list of
\* at most 1000 entries that ends with the event just added, and before it
\* holds the latest entries events held, in their order.
C27_AddEventKeepsLatest ==
    [][(ret'.op = "add" /\ cycle'.added = cycle.added + 1) =>
          LET kept == Len(events') - 1
          IN  /\ events' # NoList
              /\ Len(events') <= EventsCap
              /\ events'[Len(events')] = ret'.event
              /\ kept = Min(Len(EventsBefore), EventsCap - 1)
              /\ SubSeq(events', 1, kept)
                    = SubSeq(EventsBefore, Len(EventsBefore) - kept + 1,
                             Len(EventsBefore))]_vars

\* An event was added to a stream that was full, and the oldest left
C27_Witness ==
    /\ pc = "events"
    /\ ret.op = "add"
    /\ Len(events) = EventsCap
    /\ events[1].type = "stored"
    /\ events[1].timestamp > 1 - EventsCap
\* The captures logged so far, in order
Captures == SelectSeq(events, LAMBDA e : e.event_type = "capture")

\* The title of the capture logged last; a stream that has logged no
\* capture has none, which differs from every title
PreviousTitle ==
    IF Captures = <<>> THEN NoWindow ELSE Captures[Len(Captures)].window_title

\* C30: log_capture appends the capture event, and right behind it one
\* window_change event carrying the new title when the title (a missing one
\* counting as "Unknown") differs from that of the capture before, and
\* nothing more when it is the same; afterwards last_window is the title.
C30_WindowChangeOnNewTitle ==
    [][(ret'.op = "log_capture" /\ cycle'.added = cycle.added + 1) =>
          LET title == TitleOf(ret'.window_info)
              added == SubSeq(events', Len(events) + 1, Len(events'))
          IN  /\ SubSeq(events', 1, Len(events)) = events
              /\ Len(added) = IF PreviousTitle # title THEN 2 ELSE 1
              /\ added[1].event_type = "capture"
              /\ added[1].window_title = title
              /\ Len(added) = 2 =>
                    /\ added[2].event_type = "window_change"
                    /\ added[2].window_title = title
              /\ last_window' = title]_vars

\* A capture of the window captured before was logged after an analysis,
\* and no window_change followed it
C30_Witness ==
    /\ ret.op = "log_capture"
    /\ Len(events) >= 4
    /\ events[Len(events)].event_type = "capture"
    /\ events[Len(events) - 1].event_type = "analysis"
    /\ \E i \in 1..Len(events) : events[i].event_type = "window_change"

=============================================================================
